---------------------------- MODULE Spec2Model ----------------------------
(***************************************************************************)
(* Model of the recursive-thinking engine (src/src/lib.ts) and of the tool *)
(* call handler that drives it over the in-memory session map (the server  *)
(* source reproduced in src/README.md, lines 255-488).                     *)
(*                                                                         *)
(* Strings are TLA+ strings; a JavaScript value that may be undefined or   *)
(* null is a sequence of length at most one (None, Some(v)).  A JavaScript *)
(* number that is not an integer count is an exact decimal fraction        *)
(* [num, den] with den a power of ten, and den = 0 for NaN; the model     *)
(* holds the numbers of at most MaxDigits digits, on which the decimal     *)
(* value, its comparisons and its text are those of the IEEE double.  The  *)
(* characters of a string are those of U+0000-U+00FF.                      *)
(***************************************************************************)
EXTENDS Integers, Sequences, FiniteSets, TLC

None == <<>>
Some(v) == <<v>>
IsSome(o) == Len(o) = 1
Val(o) == o[1]

Min(a, b) == IF a <= b THEN a ELSE b

(***************************************************************************)
(* Strings                                                                 *)
(***************************************************************************)
CharAt(s, i) == SubSeq(s, i, i)

\* The characters of U+0000-U+00FF that toLowerCase changes (A-Z, U+00C0-U+00D6
\* and U+00D8-U+00DE), and their images, in the same order.
UpperChars == "ABCDEFGHIJKLMNOPQRSTUVWXYZÀÁÂÃÄÅÆÇÈÉÊËÌÍÎÏÐÑÒÓÔÕÖØÙÚÛÜÝÞ"
LowerChars == "abcdefghijklmnopqrstuvwxyzàáâãäåæçèéêëìíîïðñòóôõöøùúûüýþ"
DigitChars == "0123456789"

\* The characters of a string, as a set.
CharsOf(alphabet) == {CharAt(alphabet, i) : i \in 1..Len(alphabet)}

UpperSet == CharsOf(UpperChars)
DigitSet == CharsOf(DigitChars)

\* The lower case letter of each upper case letter.
LowerOf ==
    [c \in UpperSet |->
        CharAt(LowerChars, CHOOSE i \in 1..Len(UpperChars) : CharAt(UpperChars, i) = c)]

\* The value of each decimal digit.
DigitOf ==
    [c \in DigitSet |->
        (CHOOSE i \in 1..Len(DigitChars) : CharAt(DigitChars, i) = c) - 1]

\* String.prototype.toLowerCase on one character.
LowerChar(c) == IF c \in UpperSet THEN LowerOf[c] ELSE c

RECURSIVE ToLowerCase(_)
ToLowerCase(s) ==
    IF Len(s) = 0 THEN "" ELSE LowerChar(CharAt(s, 1)) \o ToLowerCase(Tail(s))

\* String.prototype.includes
Includes(s, kw) ==
    \E i \in 1..(Len(s) - Len(kw) + 1) : SubSeq(s, i, i + Len(kw) - 1) = kw

\* String.prototype.slice(0, n)
Slice0(s, n) == SubSeq(s, 1, Min(n, Len(s)))

\* The characters of U+0000-U+00FF that the regular expression class \s and
\* trim() treat as white space: space, tab, line feed, carriage return, form
\* feed, vertical tab (U+000B) and no-break space (U+00A0).
SpaceSet == {" ", "\t", "\n", "\r", "\f", "", " "}
IsSpace(c) == c \in SpaceSet

\* s.trim().length === 0
IsBlank(s) == \A i \in 1..Len(s) : IsSpace(CharAt(s, i))

\* text.split("\n")
\* The first index from i on where s holds the character c, 0 when none.
RECURSIVE IndexFrom(_, _, _)
IndexFrom(s, c, i) ==
    IF i > Len(s) THEN 0
    ELSE IF CharAt(s, i) = c THEN i
    ELSE IndexFrom(s, c, i + 1)

RECURSIVE SplitLines(_)
SplitLines(s) ==
    LET i == IndexFrom(s, "\n", 1)
    IN IF i = 0 THEN <<s>>
       ELSE <<SubSeq(s, 1, i - 1)>> \o SplitLines(SubSeq(s, i + 1, Len(s)))

\* lines.join("\n")
RECURSIVE JoinLines(_)
JoinLines(lines) ==
    IF Len(lines) = 0 THEN ""
    ELSE IF Len(lines) = 1 THEN lines[1]
    ELSE lines[1] \o "\n" \o JoinLines(Tail(lines))

(***************************************************************************)
(* Numbers                                                                 *)
(***************************************************************************)
RECURSIVE Normal(_, _)
Normal(n, d) ==
    IF d > 1 /\ n % 10 = 0 THEN Normal(n \div 10, d \div 10)
    ELSE [num |-> n, den |-> d]

NaN == [num |-> 0, den |-> 0]
IsNaN(x) == x.den = 0
FromInt(n) == [num |-> n, den |-> 1]

\* Bound of the model: the number of digits of a number read from a response.
MaxDigits == 8

Max(a, b) == IF a >= b THEN a ELSE b

\* a >= b on numbers: false as soon as one of them is NaN. The integer parts
\* are compared first, then the fractions over the larger denominator.
GE(a, b) ==
    /\ ~IsNaN(a)
    /\ ~IsNaN(b)
    /\ LET d == Max(a.den, b.den)
           ia == a.num \div a.den
           ib == b.num \div b.den
           fa == (a.num % a.den) * (d \div a.den)
           fb == (b.num % b.den) * (d \div b.den)
       IN ia > ib \/ (ia = ib /\ fa >= fb)

RECURSIVE Pow10(_)
Pow10(k) == IF k = 0 THEN 1 ELSE 10 * Pow10(k - 1)

\* The value of a string of decimal digits ("" is 0).
RECURSIVE DigitsValue(_)
DigitsValue(s) ==
    IF Len(s) = 0 THEN 0
    ELSE 10 * DigitsValue(SubSeq(s, 1, Len(s) - 1))
         + DigitOf[CharAt(s, Len(s))]

\* The end of the longest run of characters of the class chars that starts
\* at i (i - 1 when the run is empty).
RECURSIVE RunEnd(_, _, _)
RunEnd(s, i, chars) ==
    IF i <= Len(s) /\ CharAt(s, i) \in chars
    THEN RunEnd(s, i + 1, chars) ELSE i - 1

\* The number of digits of the decimal literal that parseFloat reads from a
\* string of digits and dots.
LiteralDigits(s) ==
    LET ie == RunEnd(s, 1, DigitSet)
        hasDot == ie + 1 <= Len(s) /\ CharAt(s, ie + 1) = "."
        fe == IF hasDot THEN RunEnd(s, ie + 2, DigitSet) ELSE ie
    IN ie + (IF hasDot THEN fe - (ie + 1) ELSE 0)

\* parseFloat on a string of digits and dots: the longest prefix that is a
\* decimal literal, NaN when there is none. Defined on literals of at most
\* MaxDigits digits, where the double nearest to the literal compares and
\* prints as the literal; a longer literal has no value in the model.
ParseFloat(s) ==
    LET ie == RunEnd(s, 1, DigitSet)
        hasDot == ie + 1 <= Len(s) /\ CharAt(s, ie + 1) = "."
        fe == IF hasDot THEN RunEnd(s, ie + 2, DigitSet) ELSE ie
        ip == SubSeq(s, 1, ie)
        fp == IF hasDot THEN SubSeq(s, ie + 2, fe) ELSE ""
    IN CASE Len(ip) = 0 /\ Len(fp) = 0 -> NaN
         [] Len(ip) + Len(fp) \in 1..MaxDigits ->
              Normal(DigitsValue(ip) * Pow10(Len(fp)) + DigitsValue(fp),
                     Pow10(Len(fp)))

\* The digits of n, left-padded with zeros to width w.
RECURSIVE PadDigits(_, _)
PadDigits(n, w) ==
    IF w = 0 THEN "" ELSE PadDigits(n \div 10, w - 1) \o CharAt(DigitChars, (n % 10) + 1)

RECURSIVE Log10(_)
Log10(d) == IF d <= 1 THEN 0 ELSE 1 + Log10(d \div 10)

\* The number of decimal digits of n (1 for 0).
RECURSIVE NumDigits(_)
NumDigits(n) == IF n < 10 THEN 1 ELSE 1 + NumDigits(n \div 10)

\* Number to string as a template literal interpolates it: positional
\* decimals from 0.000001 on, exponent form (1e-7, 1.5e-7) below it.
NumToString(x) ==
    IF IsNaN(x) THEN "NaN"
    ELSE IF x.den = 1 THEN ToString(x.num)
    ELSE LET k == NumDigits(x.num)
             n == k - Log10(x.den)
             digits == ToString(x.num)
         IN IF n > -6
            THEN ToString(x.num \div x.den) \o "."
                 \o PadDigits(x.num % x.den, Log10(x.den))
            ELSE CharAt(digits, 1)
                 \o (IF k = 1 THEN "" ELSE "." \o SubSeq(digits, 2, k))
                 \o "e-" \o ToString(1 - n)

(***************************************************************************)
(* The engine: src/src/lib.ts                                              *)
(***************************************************************************)
DEFAULT_CONFIG ==
    [maxDepth |-> 5,
     minConfidence |-> [num |-> 85, den |-> 100],
     maxIterations |-> 8,
     temperature |-> [num |-> 7, den |-> 10]]

\* { ...a, ...b }: the fields of b over the fields of a.
Spread(a, b) ==
    [k \in (DOMAIN a) \cup (DOMAIN b) |-> IF k \in DOMAIN b THEN b[k] ELSE a[k]]

\* An object with no fields: the default value of an omitted config argument.
EmptyObject == [k \in {} |-> 0]

\* const finalConfig = { ...DEFAULT_CONFIG, ...config } with config = {} when
\* the argument is undefined.
FinalConfig(config) ==
    Spread(DEFAULT_CONFIG, IF IsSome(config) THEN Val(config) ELSE EmptyObject)

InsightKeywords ==
    <<"therefore", "conclusion", "solution", "approach",
      "error", "issue", "fixed", "implement">>

\* keywords.some((kw) => line.toLowerCase().includes(kw))
HasKeyword(line, keywords) ==
    LET lower == ToLowerCase(line)
    IN \E k \in 1..Len(keywords) : Includes(lower, keywords[k])

\* The two filters of compressInsights: lines that are not blank and that
\* hold a keyword, in their order.
RECURSIVE InsightLines(_)
InsightLines(lines) ==
    IF Len(lines) = 0 THEN <<>>
    ELSE (IF ~IsBlank(lines[1]) /\ HasKeyword(lines[1], InsightKeywords)
          THEN <<lines[1]>> ELSE <<>>) \o InsightLines(Tail(lines))

compressInsights(text) ==
    Slice0(JoinLines(InsightLines(SplitLines(text))), 500)

generateThinkingPrompt(originalTask, state, config) ==
    IF state.depth = 0
    THEN "Analyze task: \"" \o Slice0(originalTask, 200) \o "\"\n"
         \o "Provide: [approach][potential_issues][confidence_0-1]\n"
         \o "Format: Single paragraph, minimal words."
    ELSE "Refine solution (depth " \o ToString(state.depth) \o "/"
         \o ToString(config.maxDepth) \o "):\n"
         \o "Task: \"" \o Slice0(originalTask, 100) \o "...\"\n"
         \o "Previous: \"" \o compressInsights(state.lastResult) \o "\"\n"
         \o "Current confidence: " \o NumToString(state.confidence) \o "\n"
         \o "Provide: [refinement][what_to_improve][new_confidence]\n"
         \o "Format: Concise, action-oriented."

ProdIndicators ==
    <<"implement", "complete", "final", "solution", "ready",
      "tested", "handle", "error", "edge case", "deploy">>

ReadyConfidence == [num |-> 85, den |-> 100]

\* Variant of isProductionReady: the confidence is not tested.
isProductionReady_NoConfidence(result, confidence) ==
    /\ HasKeyword(result, ProdIndicators)
    /\ Len(result) > 50

isProductionReady(result, confidence) ==
    /\ GE(confidence, ReadyConfidence)
    /\ HasKeyword(result, ProdIndicators)
    /\ Len(result) > 50

InitialState ==
    [depth |-> 0,
     confidence |-> FromInt(0),
     iterations |-> <<>>,
     lastResult |-> "",
     isComplete |-> FALSE]

recursiveThink(task, config) ==
    [result |-> generateThinkingPrompt(task, InitialState, FinalConfig(config)),
     iterations |-> 0,
     confidence |-> FromInt(0)]

\* agentResponse.match(/confidence[:\s]*([0-9.]+)/i): the capture group of the
\* leftmost match, None when the pattern matches nowhere.  The token is
\* compared in lower case, the separators and the number are taken greedily.
ConfidenceToken == "confidence"
SeparatorChars == {":"} \cup SpaceSet
NumberChars == DigitSet \cup {"."}

\* The token, in any letter case, is at s[i .. i + Len(token) - 1]; k is the
\* number of its characters already compared.
RECURSIVE TokenAt(_, _, _, _)
TokenAt(s, i, token, k) ==
    \/ k = Len(token)
    \/ /\ i + k <= Len(s)
       /\ LowerChar(CharAt(s, i + k)) = CharAt(token, k + 1)
       /\ TokenAt(s, i, token, k + 1)

MatchesAt(s, i) ==
    /\ TokenAt(s, i, ConfidenceToken, 0)
    /\ LET j == RunEnd(s, i + Len(ConfidenceToken), SeparatorChars) + 1
       IN RunEnd(s, j, NumberChars) >= j

CaptureAt(s, i) ==
    LET j == RunEnd(s, i + Len(ConfidenceToken), SeparatorChars) + 1
    IN SubSeq(s, j, RunEnd(s, j, NumberChars))

\* The leftmost index from i on where the pattern matches, 0 when none.
RECURSIVE FirstMatch(_, _)
FirstMatch(s, i) ==
    IF i > Len(s) THEN 0
    ELSE IF MatchesAt(s, i) THEN i
    ELSE FirstMatch(s, i + 1)

confidenceMatch(agentResponse) ==
    LET i == FirstMatch(agentResponse, 1)
    IN IF i = 0 THEN None ELSE Some(CaptureAt(agentResponse, i))

DefaultConfidence == [num |-> 5, den |-> 10]

\* The number a response holds after the token, if any, is one the model
\* holds: its literal has at most MaxDigits digits.
InRange(agentResponse) ==
    LET m == confidenceMatch(agentResponse)
    IN IsSome(m) => LiteralDigits(Val(m)) <= MaxDigits

\* const confidence = confidenceMatch ? parseFloat(confidenceMatch[1]) : 0.5
ExtractConfidence(agentResponse) ==
    LET m == confidenceMatch(agentResponse)
    IN IF IsSome(m) THEN ParseFloat(Val(m)) ELSE DefaultConfidence

\* Variant of ShouldStop: the depth limit compared with > instead of >=.
ShouldStop_DepthStrict(agentResponse, confidence, depth, finalConfig) ==
    \/ isProductionReady(agentResponse, confidence)
    \/ depth > finalConfig.maxDepth
    \/ GE(confidence, finalConfig.minConfidence)

\* Variant of ShouldStop: the depth limit is not a trigger.
ShouldStop_NoDepthLimit(agentResponse, confidence, depth, finalConfig) ==
    \/ isProductionReady(agentResponse, confidence)
    \/ GE(confidence, finalConfig.minConfidence)

\* Variant of ShouldStop: the confidence threshold compared with > instead of >=.
ShouldStop_ConfidenceStrict(agentResponse, confidence, depth, finalConfig) ==
    \/ isProductionReady(agentResponse, confidence)
    \/ depth >= finalConfig.maxDepth
    \/ (GE(confidence, finalConfig.minConfidence)
        /\ ~GE(finalConfig.minConfidence, confidence))

\* Variant of ShouldStop: the readiness trigger counts only when the confidence
\* also reaches minConfidence.
ShouldStop_ReadyNeedsMin(agentResponse, confidence, depth, finalConfig) ==
    \/ (isProductionReady(agentResponse, confidence)
        /\ GE(confidence, finalConfig.minConfidence))
    \/ depth >= finalConfig.maxDepth
    \/ GE(confidence, finalConfig.minConfidence)

\* Variant of ShouldStop: maxIterations is a limit of the depth as well.
ShouldStop_IterationCap(agentResponse, confidence, depth, finalConfig) ==
    \/ isProductionReady(agentResponse, confidence)
    \/ depth >= finalConfig.maxDepth
    \/ depth >= finalConfig.maxIterations
    \/ GE(confidence, finalConfig.minConfidence)

\* The condition of the if statement of processIteration.
ShouldStop(agentResponse, confidence, depth, finalConfig) ==
    \/ isProductionReady(agentResponse, confidence)
    \/ depth >= finalConfig.maxDepth
    \/ GE(confidence, finalConfig.minConfidence)

\* Variant of NewState: lastResult keeps the value of the previous state.
NewState_StaleResult(agentResponse, previousState) ==
    [depth |-> previousState.depth + 1,
     confidence |-> ExtractConfidence(agentResponse),
     iterations |-> Append(previousState.iterations, agentResponse),
     lastResult |-> previousState.lastResult,
     isComplete |-> FALSE]

\* The state processIteration builds before it decides to stop.
NewState(agentResponse, previousState) ==
    [depth |-> previousState.depth + 1,
     confidence |-> ExtractConfidence(agentResponse),
     iterations |-> Append(previousState.iterations, agentResponse),
     lastResult |-> agentResponse,
     isComplete |-> FALSE]

\* The value of the previousState argument when processIteration returns. The
\* function assigns to no property of it, and [...previousState.iterations,
\* agentResponse] copies the array it extends.
previousStateAfter(agentResponse, previousState) == previousState

\* Variant of processIteration: the depth is not incremented.
processIteration_NoIncrement(originalTask, agentResponse, previousState, config) ==
    LET finalConfig == FinalConfig(config)
        newState == [NewState(agentResponse, previousState)
                        EXCEPT !.depth = previousState.depth]
    IN IF ShouldStop(agentResponse, newState.confidence, newState.depth, finalConfig)
       THEN [nextPrompt |-> None,
             state |-> [newState EXCEPT !.isComplete = TRUE]]
       ELSE [nextPrompt |->
                 Some(generateThinkingPrompt(originalTask, newState, finalConfig)),
             state |-> newState]

\* Variant of processIteration: no early return, the prompt is generated also
\* when the state is marked complete.
processIteration_NoEarlyReturn(originalTask, agentResponse, previousState, config) ==
    LET finalConfig == FinalConfig(config)
        newState == NewState(agentResponse, previousState)
        stop == ShouldStop(agentResponse, newState.confidence, newState.depth,
                           finalConfig)
    IN [nextPrompt |->
            Some(generateThinkingPrompt(originalTask, newState, finalConfig)),
        state |-> [newState EXCEPT !.isComplete = stop]]

\* Variant of processIteration: the prompt is generated from the previous
\* state instead of the new one.
processIteration_StalePrompt(originalTask, agentResponse, previousState, config) ==
    LET finalConfig == FinalConfig(config)
        newState == NewState(agentResponse, previousState)
    IN IF ShouldStop(agentResponse, newState.confidence, newState.depth, finalConfig)
       THEN [nextPrompt |-> None,
             state |-> [newState EXCEPT !.isComplete = TRUE]]
       ELSE [nextPrompt |->
                 Some(generateThinkingPrompt(originalTask, previousState, finalConfig)),
             state |-> newState]

processIteration(originalTask, agentResponse, previousState, config) ==
    LET finalConfig == FinalConfig(config)
        newState == NewState(agentResponse, previousState)
    IN IF ShouldStop(agentResponse, newState.confidence, newState.depth, finalConfig)
       THEN [nextPrompt |-> None,
             state |-> [newState EXCEPT !.isComplete = TRUE]]
       ELSE [nextPrompt |->
                 Some(generateThinkingPrompt(originalTask, newState, finalConfig)),
             state |-> newState]

(***************************************************************************)
(* The tool call handler and the session map: src/README.md, 268-476       *)
(***************************************************************************)
\* Bound of the model: the number of responses the session map holds in all.
MaxStored == 3

\* Bound of the model: the number of start requests suspended at one time.
MaxPending == 2

\* The inputs of the requests.
GeneratedIds == {"session_1_abc123"}
SessionIds == {None, Some("s1")}
StartIds == {Some("s1")}
\* The third task is blank: a space, a vertical tab and a no-break space.
Tasks == {None, Some(""), Some("  "), Some("Build a REST API")}
Responses ==
    {None, Some(""),
     Some("no idea yet"),
     Some("I will use Express and handle errors, confidence: 0.6"),
     Some("CONFIDENCE 0.87 - solution handles every edge case, not yet tested"),
     Some("Final implemented solution, fully tested and ready to deploy, confidence: 0.9")}
Configs ==
    {None,
     Some([maxDepth |-> 2, maxIterations |-> 1]),
     Some([minConfidence |-> [num |-> 9, den |-> 10]]),
     Some([maxDepth |-> 3, minConfidence |-> [num |-> 6, den |-> 10]])}
OtherActions == {"stop"}

VARIABLES
    sessions,   \* the Map sessions: session identifier -> ThinkingState
    reply,      \* what the handler returned or threw for the last request
    call,       \* the last request's call of processIteration, None without one
    started,    \* per stored session: the task and config of its start request
    pending,    \* the start requests suspended at await recursiveThink, in order
    handled     \* per stored session: the responses accepted since its start

vars == <<sessions, reply, call, started, pending, handled>>

\* Variant of MapSet: the value is written to every key of the map.
MapSet_All(map, key, value) ==
    [k \in (DOMAIN map) \cup {key} |-> value]

\* Map.prototype.set
MapSet(map, key, value) ==
    [k \in (DOMAIN map) \cup {key} |-> IF k = key THEN value ELSE map[k]]

EmptyMap == [k \in {} |-> 0]

\* const sid = sessionId || `session_${Date.now()}_${random}`
SidOf(sessionId, generated) ==
    IF IsSome(sessionId) /\ Val(sessionId) # "" THEN Val(sessionId) ELSE generated

Thrown(message) == [kind |-> "error", message |-> message]
Returned(body) == [kind |-> "result", body |-> body]

\* The number of responses held by the map.
RECURSIVE StoredIn(_, _)
StoredIn(map, keys) ==
    IF keys = {} THEN 0
    ELSE LET k == CHOOSE x \in keys : TRUE
         IN map[k].depth + StoredIn(map, keys \ {k})

Stored == StoredIn(sessions, DOMAIN sessions)

Init ==
    /\ sessions = EmptyMap
    /\ reply = [kind |-> "none"]
    /\ call = None
    /\ started = EmptyMap
    /\ pending = <<>>
    /\ handled = EmptyMap

\* if (name !== 'recursive_thinking') throw
UnknownTool(name) ==
    /\ name # "recursive_thinking"
    /\ reply' = Thrown("Unknown tool: " \o name)
    /\ call' = None
    /\ UNCHANGED <<sessions, started, pending, handled>>

\* Variant of StartBegin: the session is stored before the task is checked.
StartBegin_StoreFirst(sessionId, task, config, generated) ==
    LET sid == SidOf(sessionId, generated)
        rejected == ~IsSome(task) \/ Val(task) = "" \/ IsBlank(Val(task))
        taskText == IF IsSome(task) THEN Val(task) ELSE ""
    IN /\ rejected \/ Len(pending) < MaxPending
       /\ sessions' = MapSet(sessions, sid, InitialState)
       /\ started' = MapSet(started, sid, [task |-> taskText, config |-> config])
       /\ handled' = MapSet(handled, sid, <<>>)
       /\ call' = None
       /\ IF rejected
          THEN /\ reply' = Thrown("Task is required for action=start")
               /\ UNCHANGED pending
          ELSE /\ pending' = Append(pending,
                                    [sid |-> sid, task |-> taskText, config |-> config])
               /\ UNCHANGED reply

\* Variant of StartBegin: a session that is already stored is kept as it is.
StartBegin_KeepExisting(sessionId, task, config, generated) ==
    LET sid == SidOf(sessionId, generated)
    IN IF ~IsSome(task) \/ Val(task) = "" \/ IsBlank(Val(task))
       THEN /\ reply' = Thrown("Task is required for action=start")
            /\ call' = None
            /\ UNCHANGED <<sessions, started, pending, handled>>
       ELSE /\ Len(pending) < MaxPending
            /\ sessions' = IF sid \in DOMAIN sessions THEN sessions
                           ELSE MapSet(sessions, sid, InitialState)
            /\ started' = MapSet(started, sid, [task |-> Val(task), config |-> config])
            /\ handled' = IF sid \in DOMAIN handled THEN handled
                          ELSE MapSet(handled, sid, <<>>)
            /\ pending' = Append(pending,
                                 [sid |-> sid, task |-> Val(task), config |-> config])
            /\ call' = None
            /\ UNCHANGED reply

\* action === 'start' up to its suspension point: the check of the task and
\* sessions.set(sid, initialState) run at once, then the handler waits at
\* await recursiveThink(task, config).
StartBegin(sessionId, task, config, generated) ==
    LET sid == SidOf(sessionId, generated)
    IN IF ~IsSome(task) \/ Val(task) = "" \/ IsBlank(Val(task))
       THEN /\ reply' = Thrown("Task is required for action=start")
            /\ call' = None
            /\ UNCHANGED <<sessions, started, pending, handled>>
       ELSE /\ Len(pending) < MaxPending
            /\ sessions' = MapSet(sessions, sid, InitialState)
            /\ started' = MapSet(started, sid, [task |-> Val(task), config |-> config])
            /\ handled' = MapSet(handled, sid, <<>>)
            /\ pending' = Append(pending,
                                 [sid |-> sid, task |-> Val(task), config |-> config])
            /\ call' = None
            /\ UNCHANGED reply

\* action === 'start' after its suspension point: the oldest suspended start
\* request resumes and returns its reply. It does not touch the map again.
StartResume ==
    /\ Len(pending) > 0
    /\ LET request == Head(pending)
       IN reply' = Returned(
            [sessionId |-> request.sid,
             prompt |-> recursiveThink(request.task, request.config).result,
             depth |-> 0,
             isComplete |-> FALSE,
             instruction |->
               "Provide your response to this prompt, then call again with action=iterate"])
    /\ pending' = Tail(pending)
    /\ call' = None
    /\ UNCHANGED <<sessions, started, handled>>

\* const originalTask = state.iterations[0] || response
OriginalTask(state, response) ==
    IF Len(state.iterations) > 0 /\ state.iterations[1] # ""
    THEN state.iterations[1] ELSE response

\* A number as JSON.stringify writes it: null for NaN.
JsonNumber(x) == IF IsNaN(x) THEN None ELSE Some(x)

\* The object the handler returns after processIteration.
IterateReply(sid, nextPrompt, newState) ==
    IF ~IsSome(nextPrompt) \/ Val(nextPrompt) = "" \/ newState.isComplete
    THEN [sessionId |-> sid,
          isComplete |-> TRUE,
          depth |-> newState.depth,
          confidence |-> JsonNumber(newState.confidence),
          iterations |-> newState.iterations,
          finalSolution |-> newState.lastResult,
          instruction |->
            "Production-ready solution achieved. Review iterations for full context."]
    ELSE [sessionId |-> sid,
          prompt |-> Val(nextPrompt),
          depth |-> newState.depth,
          confidence |-> JsonNumber(newState.confidence),
          isComplete |-> FALSE,
          instruction |-> "Continue iterating until isComplete=true"]

\* Variant of HandleIterate: the new state is returned to the caller and not
\* written to the map.
HandleIterate_NoStore(sessionId, response, config, generated) ==
    LET sid == SidOf(sessionId, generated)
    IN IF sid \notin DOMAIN sessions
       THEN /\ reply' = Thrown("Session " \o sid
                               \o " not found. Start with action=start first.")
            /\ call' = None
            /\ UNCHANGED <<sessions, started, pending, handled>>
       ELSE IF ~IsSome(response) \/ Val(response) = ""
       THEN /\ reply' = Thrown("Response is required for action=iterate")
            /\ call' = None
            /\ UNCHANGED <<sessions, started, pending, handled>>
       ELSE LET state == sessions[sid]
                originalTask == OriginalTask(state, Val(response))
            IN /\ Len(handled[sid]) < MaxStored
               /\ InRange(Val(response))
               /\ \E out \in {processIteration(originalTask, Val(response),
                                                state, config)} :
                    /\ call' = Some([sid |-> sid,
                                     originalTask |-> originalTask,
                                     agentResponse |-> Val(response),
                                     previousState |-> state,
                                     previousStateAfter |->
                                         previousStateAfter(Val(response), state),
                                     config |-> config,
                                     nextPrompt |-> out.nextPrompt,
                                     state |-> out.state])
                    /\ reply' = Returned(IterateReply(sid, out.nextPrompt, out.state))
                    /\ handled' = MapSet(handled, sid,
                                         Append(handled[sid], Val(response)))
                    /\ UNCHANGED <<sessions, started, pending>>

\* action === 'iterate'
HandleIterate(sessionId, response, config, generated) ==
    LET sid == SidOf(sessionId, generated)
    IN IF sid \notin DOMAIN sessions
       THEN /\ reply' = Thrown("Session " \o sid
                               \o " not found. Start with action=start first.")
            /\ call' = None
            /\ UNCHANGED <<sessions, started, pending, handled>>
       ELSE IF ~IsSome(response) \/ Val(response) = ""
       THEN /\ reply' = Thrown("Response is required for action=iterate")
            /\ call' = None
            /\ UNCHANGED <<sessions, started, pending, handled>>
       ELSE LET state == sessions[sid]
                originalTask == OriginalTask(state, Val(response))
            IN /\ Stored < MaxStored
               /\ InRange(Val(response))
               /\ \E out \in {processIteration(originalTask, Val(response),
                                                state, config)} :
                    /\ sessions' = MapSet(sessions, sid, out.state)
                    /\ call' = Some([sid |-> sid,
                                     originalTask |-> originalTask,
                                     agentResponse |-> Val(response),
                                     previousState |-> state,
                                     previousStateAfter |->
                                         previousStateAfter(Val(response), state),
                                     config |-> config,
                                     nextPrompt |-> out.nextPrompt,
                                     state |-> out.state])
                    /\ reply' = Returned(IterateReply(sid, out.nextPrompt, out.state))
                    /\ handled' = MapSet(handled, sid,
                                         Append(handled[sid], Val(response)))
                    /\ UNCHANGED <<started, pending>>

\* any other action
HandleInvalid(action) ==
    /\ action \notin {"start", "iterate"}
    /\ reply' = Thrown("Invalid action: " \o action \o ". Use 'start' or 'iterate'")
    /\ call' = None
    /\ UNCHANGED <<sessions, started, pending, handled>>

\* No start request is suspended: a client that waits for the reply of each
\* request sends its next request in such a state only.
Idle == pending = <<>>

\* One client with one caller-chosen session identifier, which sends a request
\* when it has the reply of the one before: requests of every kind, with every
\* task, response and config; a request without sessionId gets a generated
\* identifier, which no start of this specification has stored. (The
\* requests of clients that do not wait for each other are NextConcurrent.)
Next ==
    \/ Idle /\ UnknownTool("other_tool")
    \/ \E sessionId \in StartIds, task \in Tasks, config \in Configs,
          generated \in GeneratedIds :
          Idle /\ StartBegin(sessionId, task, config, generated)
    \/ StartResume
    \/ \E sessionId \in SessionIds, response \in Responses, config \in Configs,
          generated \in GeneratedIds :
          Idle /\ HandleIterate(sessionId, response, config, generated)
    \/ \E action \in OtherActions : Idle /\ HandleInvalid(action)

Spec == Init /\ [][Next]_vars

\* The config the start request of a stored session carried.
ConfigOfSession(sid) ==
    IF sid \in DOMAIN started THEN started[sid].config ELSE None

\* The same requests from a caller that sends, with every iterate request, the
\* config it sent with the start request of that session.
NextUniform ==
    \/ Idle /\ UnknownTool("other_tool")
    \/ \E sessionId \in StartIds, task \in Tasks, config \in Configs,
          generated \in GeneratedIds :
          Idle /\ StartBegin(sessionId, task, config, generated)
    \/ StartResume
    \/ \E sessionId \in SessionIds, response \in Responses,
          generated \in GeneratedIds :
          Idle /\ HandleIterate(sessionId, response,
                                ConfigOfSession(SidOf(sessionId, generated)),
                                generated)
    \/ \E action \in OtherActions : Idle /\ HandleInvalid(action)

SpecUniform == Init /\ [][NextUniform]_vars

\* Two clients, each with its own session identifier, whose requests reach
\* the server in any order. A start request is two steps, around its await;
\* every other request runs to its reply in one step, as no other request has
\* a suspension point in its handler.
ConcurrentIds == {Some("s1"), Some("s2")}
ConcurrentTasks == {None, Some("Build a REST API")}
ConcurrentResponses ==
    {None,
     Some("no idea yet"),
     Some("Final implemented solution, fully tested and ready to deploy, confidence: 0.9")}
ConcurrentConfigs == {None}

NextConcurrent ==
    \/ UnknownTool("other_tool")
    \/ \E sessionId \in ConcurrentIds, task \in ConcurrentTasks,
          config \in ConcurrentConfigs, generated \in GeneratedIds :
          StartBegin(sessionId, task, config, generated)
    \/ StartResume
    \/ \E sessionId \in ConcurrentIds, response \in ConcurrentResponses,
          config \in ConcurrentConfigs, generated \in GeneratedIds :
          HandleIterate(sessionId, response, config, generated)
    \/ \E action \in OtherActions : HandleInvalid(action)

SpecConcurrent == Init /\ [][NextConcurrent]_vars

\* Responses that exercise the confidence parsing and the readiness test:
\* text where the capture group of the pattern holds dots only, text with no
\* number after the token, a number below 0.000001 after a vertical tab, and
\* one long response with a readiness keyword at three confidence values
\* around 0.85.
ConfidenceResponses ==
    {None,
     Some("confidence."),
     Some("confidence: .."),
     Some("confidence: high"),
     Some("Confidence:0.0000001"),
     Some("Tested solution handles every edge case - confidence: 0.84 for now"),
     Some("Tested solution handles every edge case - confidence: 0.85 for now"),
     Some("Tested solution handles every edge case - confidence: 0.87 for now")}
ConfidenceConfigs ==
    {None, Some([minConfidence |-> [num |-> 9, den |-> 10]])}

\* The requests of Next with the responses and configs above.
NextConfidence ==
    \/ Idle /\ UnknownTool("other_tool")
    \/ \E sessionId \in StartIds, task \in Tasks, config \in ConfidenceConfigs,
          generated \in GeneratedIds :
          Idle /\ StartBegin(sessionId, task, config, generated)
    \/ StartResume
    \/ \E sessionId \in SessionIds, response \in ConfidenceResponses,
          config \in ConfidenceConfigs, generated \in GeneratedIds :
          Idle /\ HandleIterate(sessionId, response, config, generated)
    \/ \E action \in OtherActions : Idle /\ HandleInvalid(action)

SpecConfidence == Init /\ [][NextConfidence]_vars

(***************************************************************************)
(* Properties                                                              *)
(***************************************************************************)
\* The last request was an accepted iterate request.
Iterated == IsSome(call)
LastCall == Val(call)

\* a < b on numbers: false as soon as one of them is NaN.
LT(a, b) == ~IsNaN(a) /\ ~IsNaN(b) /\ ~GE(a, b)

\* C1: in every stored session state, the number of stored iterations equals
\* the depth, after start and after any number of iterate calls, calls made
\* after completion included.
C1_LengthIsDepth ==
    \A sid \in DOMAIN sessions :
        Len(sessions[sid].iterations) = sessions[sid].depth

\* A session iterated again after it was complete.
C1_Witness ==
    /\ Iterated
    /\ LastCall.previousState.isComplete
    /\ sessions[LastCall.sid].depth >= 2

\* C2: whenever the depth of the state processIteration produces is at least
\* the maxDepth of the config in force, the state is complete and there is no
\* next prompt, whatever the response and its confidence.
C2_DepthLimitStops ==
    Iterated =>
        (LastCall.state.depth >= FinalConfig(LastCall.config).maxDepth
            => /\ LastCall.state.isComplete
               /\ LastCall.nextPrompt = None)

\* A call on a state already at the depth limit, with a response of default
\* confidence that triggers nothing else.
C2_Witness ==
    /\ Iterated
    /\ LastCall.previousState.depth >= FinalConfig(LastCall.config).maxDepth
    /\ LastCall.state.confidence = DefaultConfidence
    /\ ~isProductionReady(LastCall.agentResponse, LastCall.state.confidence)

\* C3: whenever the confidence parsed from the response is at least the
\* minConfidence of the config in force, processIteration returns a complete
\* state, at any depth.
C3_ConfidenceStops ==
    Iterated =>
        (GE(ExtractConfidence(LastCall.agentResponse),
            FinalConfig(LastCall.config).minConfidence)
            => LastCall.state.isComplete)

\* A call that the confidence threshold alone completes: confidence equal to
\* minConfidence, below the depth limit, the response not production-ready.
C3_Witness ==
    /\ Iterated
    /\ LastCall.state.confidence = FinalConfig(LastCall.config).minConfidence
    /\ LastCall.state.depth < FinalConfig(LastCall.config).maxDepth
    /\ ~isProductionReady(LastCall.agentResponse, LastCall.state.confidence)
    /\ LastCall.state.isComplete

\* Every response the session holds has a confidence below minConfidence and
\* is not production-ready.
AllLow(state, finalConfig) ==
    \A i \in 1..Len(state.iterations) :
        /\ LT(ExtractConfidence(state.iterations[i]), finalConfig.minConfidence)
        /\ ~isProductionReady(state.iterations[i],
                              ExtractConfidence(state.iterations[i]))

\* C4: in a session whose requests all carry one config, the stored state is
\* complete from the maxDepth-th iterate call on; and while every response is
\* low-confidence and not production-ready, an iterate call returns a complete
\* state exactly when it is the maxDepth-th (or a later one), and a prompt
\* exactly when it is an earlier one.
C4_CompleteByMaxDepth ==
    \A sid \in DOMAIN sessions :
        LET finalConfig == FinalConfig(started[sid].config)
            state == sessions[sid]
        IN /\ state.depth >= finalConfig.maxDepth => state.isComplete
           /\ (Iterated /\ LastCall.sid = sid /\ AllLow(state, finalConfig))
                => /\ state.isComplete <=> (state.depth >= finalConfig.maxDepth)
                   /\ IsSome(LastCall.nextPrompt)
                        <=> (state.depth < finalConfig.maxDepth)
                   /\ reply.body.isComplete = state.isComplete

\* The maxDepth-th call of a session of low responses: the depth limit alone
\* completes it, and the call before it did not.
C4_Witness ==
    /\ Iterated
    /\ LastCall.config = started[LastCall.sid].config
    /\ AllLow(LastCall.state, FinalConfig(LastCall.config))
    /\ LastCall.state.depth = FinalConfig(LastCall.config).maxDepth
    /\ LastCall.state.depth >= 2
    /\ ~LastCall.previousState.isComplete
    /\ LastCall.state.isComplete

\* The three triggers of processIteration, on the inputs and result of a call.
Triggered(c) ==
    \/ isProductionReady(c.agentResponse, ExtractConfidence(c.agentResponse))
    \/ c.previousState.depth + 1 >= FinalConfig(c.config).maxDepth
    \/ GE(ExtractConfidence(c.agentResponse), FinalConfig(c.config).minConfidence)

\* C5: processIteration returns a complete state if and only if one of the
\* three triggers holds (production-ready, depth limit, confidence threshold);
\* when none holds it returns the incomplete state with the prompt generated
\* from that new state.
C5_StopsIffTriggered ==
    Iterated =>
        /\ LastCall.state.isComplete <=> Triggered(LastCall)
        /\ ~Triggered(LastCall) =>
              LastCall.nextPrompt =
                  Some(generateThinkingPrompt(LastCall.originalTask, LastCall.state,
                                              FinalConfig(LastCall.config)))

\* A call that only the readiness trigger completes: confidence 0.87 under
\* minConfidence 0.9, below the depth limit.
C5_Witness ==
    /\ Iterated
    /\ isProductionReady(LastCall.agentResponse, LastCall.state.confidence)
    /\ LastCall.state.depth < FinalConfig(LastCall.config).maxDepth
    /\ ~GE(LastCall.state.confidence, FinalConfig(LastCall.config).minConfidence)
    /\ LastCall.state.isComplete

\* C6: for every iterate call, processIteration returns no next prompt exactly
\* when the state it returns is complete; the reply of the handler has a
\* prompt field exactly when it reports isComplete = false, and the isComplete
\* it reports is the one of the state it stored.
C6_PromptIffIncomplete ==
    Iterated =>
        /\ (LastCall.nextPrompt = None) <=> LastCall.state.isComplete
        /\ reply.kind = "result"
        /\ ("prompt" \in DOMAIN reply.body) <=> ~reply.body.isComplete
        /\ reply.body.isComplete = sessions[LastCall.sid].isComplete

\* A completing call, answered without a prompt field.
C6_Witness ==
    /\ Iterated
    /\ LastCall.state.isComplete
    /\ reply.kind = "result"
    /\ "prompt" \notin DOMAIN reply.body
    /\ "finalSolution" \in DOMAIN reply.body

\* C7: once the stored state of a session is complete, every state a later
\* iterate call stores for it is complete.
C7_CompleteIsTerminal ==
    Iterated => (LastCall.previousState.isComplete => LastCall.state.isComplete)

\* C8: the maxDepth and minConfidence of the start request decide completion
\* in the later iterate calls of the session; stated for the calls the claim
\* singles out, the iterate requests that carry no config of their own.
C8_StartConfigDecides ==
    (Iterated /\ LastCall.config = None) =>
        LET startConfig == FinalConfig(started[LastCall.sid].config)
            confidence == ExtractConfidence(LastCall.agentResponse)
        IN LastCall.state.isComplete <=>
             \/ isProductionReady(LastCall.agentResponse, confidence)
             \/ LastCall.state.depth >= startConfig.maxDepth
             \/ GE(confidence, startConfig.minConfidence)

\* C9: a rejected request (invalid action, start with an empty or blank task,
\* iterate on an unknown session, iterate without a response) leaves the whole
\* session map as it was.
C9_RejectionKeepsStore ==
    [][(reply'.kind = "error" /\ pending' = pending) => sessions' = sessions]_vars

\* An iterate request on an identifier the map does not hold was rejected
\* while the map held an iterated session.
C9_Witness ==
    /\ reply.kind = "error"
    /\ \E g \in GeneratedIds :
          /\ g \notin DOMAIN sessions
          /\ reply.message = "Session " \o g \o " not found. Start with action=start first."
    /\ \E sid \in DOMAIN sessions : sessions[sid].depth > 0

\* The step is an accepted iterate request on sid.
IterateStep(sid) == IsSome(call') /\ Val(call').sid = sid

\* The step is an accepted start request on sid reaching its suspension point.
BeginStep(sid) ==
    /\ Len(pending') = Len(pending) + 1
    /\ pending'[Len(pending')].sid = sid

\* C10 as stated: the stored depth of a session identifier never decreases
\* over accepted start and iterate requests, and an accepted iterate request
\* increases it by exactly 1.
C10_DepthNeverDecreases ==
    [][\A sid \in DOMAIN sessions :
          /\ sessions'[sid].depth >= sessions[sid].depth
          /\ IterateStep(sid) => sessions'[sid].depth = sessions[sid].depth + 1]_vars

\* C10 as amended: an accepted iterate request increases the stored depth of
\* its session by exactly 1, an accepted start request sets the stored depth
\* of its session to 0, and no request changes the depth of another session.
C10_DepthSteps ==
    [][/\ \A sid \in DOMAIN sessions :
            sessions'[sid].depth =
                IF IterateStep(sid) THEN sessions[sid].depth + 1
                ELSE IF BeginStep(sid) THEN 0
                ELSE sessions[sid].depth
       /\ \A sid \in (DOMAIN sessions') \ (DOMAIN sessions) :
            BeginStep(sid) /\ sessions'[sid].depth = 0]_vars

\* An accepted iterate request on a session that was iterated before: the
\* stored depth is one more than the depth the call found.
C10_Witness ==
    /\ Iterated
    /\ LastCall.previousState.depth >= 1
    /\ sessions[LastCall.sid].depth = LastCall.previousState.depth + 1


\* C11: maxIterations is a hard cap: a call whose new depth is at least the
\* maxIterations of the config in force returns a complete state and no
\* continuation prompt.
C11_IterationCapStops ==
    Iterated =>
        (LastCall.state.depth >= FinalConfig(LastCall.config).maxIterations
            => /\ LastCall.state.isComplete
               /\ LastCall.nextPrompt = None)

\* C12: the originalTask the handler passes to processIteration is the task
\* of the start request of the session.
C12_TaskOfStart ==
    Iterated => LastCall.originalTask = started[LastCall.sid].task


\* C19: in every stored session state lastResult is "" at depth 0 and otherwise
\* the last element of iterations; after an accepted iterate request that
\* element is the response of the request, and the finalSolution of a
\* completion reply is that response.
C19_LastResultIsLastResponse ==
    /\ \A sid \in DOMAIN sessions :
          LET s == sessions[sid]
          IN /\ s.depth = 0 => s.lastResult = ""
             /\ s.depth > 0 =>
                   /\ Len(s.iterations) > 0
                   /\ s.lastResult = s.iterations[Len(s.iterations)]
    /\ Iterated =>
          /\ sessions[LastCall.sid].lastResult = LastCall.agentResponse
          /\ (reply.body.isComplete =>
                 reply.body.finalSolution = LastCall.agentResponse)

\* A completion reply at depth 2: two responses are stored and the reply
\* carries the second.
C19_Witness ==
    /\ Iterated
    /\ reply.kind = "result"
    /\ reply.body.isComplete
    /\ LastCall.state.depth = 2
    /\ LastCall.state.iterations[1] # LastCall.agentResponse
    /\ reply.body.finalSolution = LastCall.agentResponse


\* C13: the confidence stored by an accepted iterate request is always a
\* number: the number after the token "confidence" when the response has one,
\* and 0.5 otherwise, malformed text such as "confidence." included.
C13_ConfidenceIsNumber ==
    Iterated =>
        /\ ~IsNaN(LastCall.state.confidence)
        /\ (LastCall.agentResponse \in {"confidence.", "confidence: .."}
               => LastCall.state.confidence = DefaultConfidence)

\* C14: under a minConfidence above 0.85, a response longer than 50 characters
\* with a readiness keyword and a confidence below minConfidence, handled at a
\* depth below maxDepth, completes the session exactly when its confidence is
\* at least 0.85.
C14_ReadinessThresholdFixed ==
    Iterated =>
        LET c == LastCall.state.confidence
            finalConfig == FinalConfig(LastCall.config)
            fixed == [num |-> 85, den |-> 100]
        IN (/\ LT(fixed, finalConfig.minConfidence)
            /\ Len(LastCall.agentResponse) > 50
            /\ HasKeyword(LastCall.agentResponse, ProdIndicators)
            /\ LT(c, finalConfig.minConfidence)
            /\ LastCall.state.depth < finalConfig.maxDepth)
           => (LastCall.state.isComplete <=> GE(c, fixed))

\* Under minConfidence 0.9 the response with confidence 0.84 left the session
\* incomplete at depth 1, and the same response with confidence 0.87 completes
\* it at depth 2, below maxDepth 5.
C14_Witness ==
    /\ Iterated
    /\ LastCall.config = Some([minConfidence |-> [num |-> 9, den |-> 10]])
    /\ LastCall.previousState.iterations =
          <<"Tested solution handles every edge case - confidence: 0.84 for now">>
    /\ ~LastCall.previousState.isComplete
    /\ LastCall.agentResponse =
          "Tested solution handles every edge case - confidence: 0.87 for now"
    /\ LastCall.state.isComplete
    /\ LastCall.state.depth = 2


\* The configs that differ from config in maxIterations or temperature only.
VariantsOf(config) ==
    LET base == IF IsSome(config) THEN Val(config) ELSE EmptyObject
    IN {Some(Spread(base, extra)) :
            extra \in {[maxIterations |-> 1],
                       [temperature |-> FromInt(0)],
                       [maxIterations |-> 20,
                        temperature |-> [num |-> 15, den |-> 10]]}}

\* C15: maxIterations and temperature do not influence the engine. Every
\* accepted request gives the same prompt, state and completion flag under
\* every config that differs from its config in these two fields only: the
\* start prompt of recursiveThink and the result of processIteration on the
\* same task, response and previous state. Two runs on the same responses
\* therefore agree step by step.
C15_UnusedFieldsNoInfluence ==
    /\ Iterated =>
          \A other \in VariantsOf(LastCall.config) :
              processIteration(LastCall.originalTask, LastCall.agentResponse,
                               LastCall.previousState, other)
                  = [nextPrompt |-> LastCall.nextPrompt, state |-> LastCall.state]
    /\ (~Iterated /\ Idle /\ reply.kind = "result") =>
          LET start == started[reply.body.sessionId]
          IN \A other \in VariantsOf(start.config) :
                 /\ recursiveThink(start.task, other).result = reply.body.prompt
                 /\ recursiveThink(start.task, other)
                        = recursiveThink(start.task, start.config)

\* A request that carries a config with maxIterations 1 reaches depth 1 and
\* gets a continuation prompt; its variants hold maxIterations 1 and 20.
C15_Witness ==
    /\ Iterated
    /\ IsSome(LastCall.config)
    /\ "maxIterations" \in DOMAIN Val(LastCall.config)
    /\ LastCall.state.depth = 1
    /\ ~LastCall.state.isComplete
    /\ IsSome(LastCall.nextPrompt)

\* C18: with minConfidence at most 0.85 the readiness test adds nothing:
\* processIteration completes exactly when the new depth reaches maxDepth or
\* the confidence reaches minConfidence.
C18_ReadinessRedundant ==
    Iterated =>
        LET c == LastCall.state.confidence
            finalConfig == FinalConfig(LastCall.config)
        IN GE([num |-> 85, den |-> 100], finalConfig.minConfidence)
           => (LastCall.state.isComplete
                 <=> \/ LastCall.state.depth >= finalConfig.maxDepth
                     \/ GE(c, finalConfig.minConfidence))

\* Under the default config: a response that passes the readiness test
\* completes below maxDepth, and the response before it, long and with a
\* readiness keyword but with confidence 0.6, did not.
C18_Witness ==
    /\ Iterated
    /\ LastCall.config = None
    /\ LastCall.previousState.iterations =
          <<"I will use Express and handle errors, confidence: 0.6">>
    /\ ~LastCall.previousState.isComplete
    /\ isProductionReady(LastCall.agentResponse, LastCall.state.confidence)
    /\ LastCall.state.isComplete
    /\ LastCall.state.depth < DEFAULT_CONFIG.maxDepth


\* C16: iterate requests lose no update. An accepted iterate request loads
\* the stored state, calls processIteration and stores the result in one
\* step; so in every interleaving of the requests of two sessions, start
\* requests suspended at their await included, the stored depth of a session
\* is the number of iterate requests accepted on it since its start and
\* iterations holds their responses in the order they were handled.
C16_NoLostUpdate ==
    [][\A sid \in DOMAIN sessions' :
          /\ sid \in DOMAIN handled'
          /\ sessions'[sid].depth = Len(handled'[sid])
          /\ sessions'[sid].iterations = handled'[sid]
          /\ IterateStep(sid) =>
                /\ Val(call').previousState = sessions[sid]
                /\ sessions'[sid] = Val(call').state
                /\ handled'[sid] = Append(handled[sid], Val(call').agentResponse)]_vars

\* Two iterate requests on s1 were accepted while its start request was still
\* suspended, and one on s2, whose start request is suspended behind it.
C16_Witness ==
    /\ Len(pending) = 2
    /\ pending[1].sid = "s1"
    /\ pending[2].sid = "s2"
    /\ {"s1", "s2"} \subseteq DOMAIN sessions
    /\ sessions["s1"].depth = 2
    /\ sessions["s2"].depth = 1
    /\ sessions["s1"].iterations[1] # sessions["s1"].iterations[2]

\* C17: sessions are isolated. A step removes no record, and a record it adds
\* or changes is the one of the session identifier of an accepted start or
\* iterate request; processIteration leaves its previousState argument as it
\* was, the stored record being replaced by the new state.
C17_OnlyTargetWritten ==
    [][/\ DOMAIN sessions \subseteq DOMAIN sessions'
       /\ \A sid \in DOMAIN sessions' :
             (sid \notin DOMAIN sessions \/ sessions'[sid] # sessions[sid])
                 => (IterateStep(sid) \/ BeginStep(sid))
       /\ IsSome(call') =>
             /\ Val(call').previousStateAfter = Val(call').previousState
             /\ sessions'[Val(call').sid] = Val(call').state
             /\ sessions'[Val(call').sid] # Val(call').previousState]_vars

\* An iterate request on s1 was accepted while s2 holds a response of its
\* own: the record of s1 is the new state, the record of s2 is still there.
C17_Witness ==
    /\ Iterated
    /\ LastCall.sid = "s1"
    /\ {"s1", "s2"} \subseteq DOMAIN sessions
    /\ sessions["s2"].depth = 1
    /\ sessions["s1"] = LastCall.state
    /\ sessions["s2"] # sessions["s1"]

=============================================================================
